---------------------------- MODULE Spec2Model ----------------------------
(***************************************************************************)
(* Swift metadata decoding in go-macho: the packed flag words of           *)
(* types/swift/protocols (protocol-requirement, generic-requirement,       *)
(* conformance and protocol-context flags), the field-descriptor kind      *)
(* predicates of types/swift/fields, and the text rendering of a Protocol  *)
(* with its Parent chain.                                                  *)
(*                                                                         *)
(* A uint32 is kept as two 16-bit halves [hi, lo] (value = hi*2^16 + lo),  *)
(* so that every operation stays inside the integers TLC can represent and *)
(* the 32-bit width of the Go types is kept exactly.                       *)
(***************************************************************************)
EXTENDS Integers, Sequences, FiniteSets, TLC

VARIABLES
    prArgs,      \* the sub-values a protocol-requirement word was built from
    prOrigin,    \* "none" before a word is decoded, then "encoded" (built
                 \* from prArgs) or "raw" (an arbitrary word)
    prFlags,     \* the ProtocolRequirementFlags word
    prView,      \* what its accessors return
    grFlags,     \* the GenericRequirementFlags word
    grView,      \* what its accessors return
    grPrev,      \* what they returned before the last bit of the word changed
    grFlipped,   \* -2 before a word is decoded, -1 once one is, then the
                 \* bit (0..31) changed before it was decoded again
    confFlags,   \* the ConformanceFlags word
    confView,    \* what its accessors return
    confPrev,    \* what they returned before the last bit of the word changed
    confFlipped, \* as grFlipped, for the conformance word
    ctxDecoded,  \* whether a protocol context flag value has been taken apart
    ctxFlags,    \* the ProtocolContextDescriptorFlags value (16 bits)
    ctxParts,    \* its class-constraint, resilience and special-kind parts
    ctxPacked,   \* the value packed again from ctxParts
    fieldStep,   \* how many Fields have been classified (0, 1 or 2)
    field,       \* the Field classified last
    fieldView,   \* its IsEnum, IsClass, IsProtocol
    prevField,   \* the Field classified before it
    prevFieldView,
    table,       \* the Protocol values in memory, by address 1..NumProtocols
    pc,          \* "empty", "idle", "rendering", "done" or "overflow"
    root,        \* the Protocol whose String was called
    stack,       \* the Protocols whose String calls are in progress, outermost first
    ret,         \* the text the innermost finished String call returned
    rendered     \* the text String returned for root

prVars == <<prArgs, prOrigin, prFlags, prView>>
grVars == <<grFlags, grView, grPrev, grFlipped>>
confVars == <<confFlags, confView, confPrev, confFlipped>>
ctxVars == <<ctxDecoded, ctxFlags, ctxParts, ctxPacked>>
fieldVars == <<fieldStep, field, fieldView, prevField, prevFieldView>>
renderVars == <<table, pc, root, stack, ret, rendered>>

--------------------------------------------------------------------------
(* 32-bit unsigned words                                                   *)

W16 == 65536

\* The highest bit of a uint32.
MaxBit == 31

U32(hi, lo) == [hi |-> hi, lo |-> lo]

\* An untyped Go constant below 2^31 converted to a uint32.
Lit(n) == U32(n \div W16, n % W16)

RECURSIVE And16(_, _)
And16(a, b) ==
    IF a = 0 \/ b = 0 THEN 0
    ELSE 2 * And16(a \div 2, b \div 2) + (a % 2) * (b % 2)

RECURSIVE Or16(_, _)
Or16(a, b) ==
    IF a = 0 THEN b
    ELSE IF b = 0 THEN a
    ELSE 2 * Or16(a \div 2, b \div 2) + (IF a % 2 = 1 \/ b % 2 = 1 THEN 1 ELSE 0)

\* Go's & and | on uint32.
AndU32(a, b) == U32(And16(a.hi, b.hi), And16(a.lo, b.lo))
OrU32(a, b) == U32(Or16(a.hi, b.hi), Or16(a.lo, b.lo))

\* Go's >> and << on uint32, for shift counts 0..31; << drops the bits
\* shifted past bit 31.
ShrU32(a, n) ==
    IF n < 16
    THEN U32(a.hi \div 2^n, (a.lo \div 2^n) + (a.hi % 2^n) * 2^(16 - n))
    ELSE U32(0, a.hi \div 2^(n - 16))
ShlU32(a, n) ==
    IF n < 16
    THEN U32((a.hi % 2^(16 - n)) * 2^n + a.lo \div 2^(16 - n),
             (a.lo % 2^(16 - n)) * 2^n)
    ELSE U32((a.lo % 2^(32 - n)) * 2^(n - 16), 0)

\* Go's conversions uint8(x), uint16(x): the low 8, 16 bits.
ToUint8(a) == a.lo % 256
ToUint16(a) == a.lo

\* Go's int(x) of a uint32 below 2^31 (int is 64 bits wide).
ToInt(a) == a.hi * W16 + a.lo

BoolBit(b) == IF b THEN 1 ELSE 0

\* The word f with bit i (0..31) inverted.
FlipBit(f, i) ==
    IF i < 16
    THEN U32(f.hi, IF (f.lo \div 2^i) % 2 = 1 THEN f.lo - 2^i ELSE f.lo + 2^i)
    ELSE U32(IF (f.hi \div 2^(i - 16)) % 2 = 1
             THEN f.hi - 2^(i - 16) ELSE f.hi + 2^(i - 16), f.lo)

--------------------------------------------------------------------------
(* ProtocolRequirementFlags                                                *)

BaseProtocol == 0
Method == 1
Init == 2
Getter == 3
Setter == 4
ReadCoroutine == 5
ModifyCoroutine == 6
AssociatedTypeAccessFunction == 7
AssociatedConformanceAccessFunction == 8

\* The largest value of the 4-bit kind field (mask 0x0F).
MaxPRKind == 15

PRFlags_Kind(f) == ToUint8(AndU32(f, Lit(15)))

IsInstance(f) == AndU32(f, Lit(16)) # Lit(0)

IsAsync(f) == AndU32(f, Lit(32)) # Lit(0)

IsSignedWithAddress(f) == PRFlags_Kind(f) # BaseProtocol

ExtraDiscriminator_Shift8(f) == ToUint16(ShrU32(f, 8))
ExtraDiscriminator(f) == ToUint16(ShrU32(f, 16))

IsFunctionImpl_IgnoresAsync(f) ==
    PRFlags_Kind(f) \in {Method, Init, Getter, Setter, ReadCoroutine, ModifyCoroutine}
IsFunctionImpl(f) ==
    IF PRFlags_Kind(f) \in
         {Method, Init, Getter, Setter, ReadCoroutine, ModifyCoroutine}
    THEN ~IsAsync(f)
    ELSE FALSE

\* The six values ProtocolRequirementFlags.String reads off a word.
PRFlags_String(f) ==
    [kind |-> PRFlags_Kind(f),
     instance |-> IsInstance(f),
     async |-> IsAsync(f),
     signed_with_addr |-> IsSignedWithAddress(f),
     extra_discriminator |-> ExtraDiscriminator(f),
     function_impl |-> IsFunctionImpl(f)]

\* A synthetic requirement word: k | instance<<4 | async<<5 | d<<16.
EncodeRequirementFlags(k, instance, async, d) ==
    OrU32(OrU32(Lit(k), ShlU32(Lit(BoolBit(instance)), 4)),
          OrU32(ShlU32(Lit(BoolBit(async)), 5), ShlU32(Lit(d), 16)))

\* Extra discriminators the words are built with (0x1234 = 4660).
MaxSmallDiscriminator == 2
Discriminators == (0 .. MaxSmallDiscriminator) \cup {4660, 32768, 65535}

\* Settings of bits 6..15, which no accessor of the word reads.
UnusedBitPatterns == {0, 64, 128, 256, 32768, 65472}

NoArgs == [kind |-> 0, instance |-> FALSE, async |-> FALSE, disc |-> 0]

PRInit ==
    /\ prArgs = NoArgs
    /\ prOrigin = "none"
    /\ prFlags = Lit(0)
    /\ prView = PRFlags_String(Lit(0))

\* A requirement word is built from its sub-values and decoded.
EncodePR ==
    /\ prOrigin = "none"
    /\ \E k \in 0 .. MaxPRKind, instance \in BOOLEAN, async \in BOOLEAN,
          d \in Discriminators :
        /\ prArgs' = [kind |-> k, instance |-> instance, async |-> async, disc |-> d]
        /\ prOrigin' = "encoded"
        /\ prFlags' = EncodeRequirementFlags(k, instance, async, d)
        /\ prView' = PRFlags_String(prFlags')
        /\ UNCHANGED <<grVars, confVars, ctxVars, fieldVars, renderVars>>

RawPRWords ==
    {U32(d, low + noise) :
        d \in Discriminators, low \in 0 .. 63, noise \in UnusedBitPatterns}

\* An arbitrary requirement word, as read from a binary, is decoded.
DecodePR ==
    /\ prOrigin = "none"
    /\ \E f \in RawPRWords :
        /\ prArgs' = NoArgs
        /\ prOrigin' = "raw"
        /\ prFlags' = f
        /\ prView' = PRFlags_String(f)
        /\ UNCHANGED <<grVars, confVars, ctxVars, fieldVars, renderVars>>

NextPR == EncodePR \/ DecodePR

--------------------------------------------------------------------------
(* GenericRequirementFlags                                                 *)

GRKindProtocol == 0
GRKindSameType == 1
GRKindBaseClass == 2
GRKindSameConformance == 3
GRKindLayout == 31

HasKeyArgument_Bit6(f) == AndU32(f, Lit(64)) # Lit(0)
HasKeyArgument(f) == AndU32(f, Lit(128)) # Lit(0)

HasExtraArgument(f) == AndU32(f, Lit(64)) # Lit(0)

GRFlags_Kind(f) == ToUint8(AndU32(f, Lit(31)))

\* The three values GenericRequirementFlags.String reads off a word.
GRFlags_String(f) ==
    [key_arg |-> HasKeyArgument(f),
     extra_arg |-> HasExtraArgument(f),
     kind |-> GRFlags_Kind(f)]

\* The generic-requirement words decoded: every setting of bits 0..7, with
\* bits 8..15 and 16..31 clear, mixed or set.
GRWords ==
    {U32(h, l + low) : h \in {0, 4660, 65535}, l \in {0, 65280}, low \in 0 .. 255}

GRInit ==
    /\ grFlags = Lit(0)
    /\ grView = GRFlags_String(Lit(0))
    /\ grPrev = GRFlags_String(Lit(0))
    /\ grFlipped = -2

\* A generic-requirement word, as read from a binary, is decoded.
DecodeGR ==
    /\ grFlipped = -2
    /\ \E f \in GRWords :
        /\ grFlags' = f
        /\ grView' = GRFlags_String(f)
        /\ grPrev' = grView
        /\ grFlipped' = -1
        /\ UNCHANGED <<prVars, confVars, ctxVars, fieldVars, renderVars>>

\* The same word with bit i changed is decoded.
RedecodeGR ==
    /\ grFlipped = -1
    /\ \E i \in 0 .. MaxBit :
        /\ grFlags' = FlipBit(grFlags, i)
        /\ grView' = GRFlags_String(grFlags')
        /\ grPrev' = grView
        /\ grFlipped' = i
        /\ UNCHANGED <<prVars, confVars, ctxVars, fieldVars, renderVars>>

NextGR == DecodeGR \/ RedecodeGR

--------------------------------------------------------------------------
(* ConformanceFlags                                                        *)

UnusedLowBits == Lit(7)
TypeMetadataKindMask == ShlU32(Lit(7), 3)
TypeMetadataKindShift == 3
IsRetroactiveMask == ShlU32(Lit(1), 6)
IsSynthesizedNonUniqueMask == ShlU32(Lit(1), 7)
NumConditionalRequirementsMask == ShlU32(Lit(255), 8)
NumConditionalRequirementsShift == 8
HasResilientWitnessesMask == ShlU32(Lit(1), 16)
HasGenericWitnessTableMask == ShlU32(Lit(1), 17)

IsRetroactive(f) == AndU32(f, IsRetroactiveMask) # Lit(0)

IsSynthesizedNonUnique(f) == AndU32(f, IsSynthesizedNonUniqueMask) # Lit(0)

GetNumConditionalRequirements_Mask7F(f) ==
    ToInt(ShrU32(AndU32(f, ShlU32(Lit(127), 8)),
                 NumConditionalRequirementsShift))
GetNumConditionalRequirements(f) ==
    ToInt(ShrU32(AndU32(f, NumConditionalRequirementsMask),
                 NumConditionalRequirementsShift))

HasResilientWitnesses(f) == AndU32(f, HasResilientWitnessesMask) # Lit(0)

HasGenericWitnessTable(f) == AndU32(f, HasGenericWitnessTableMask) # Lit(0)

GetTypeReferenceKind(f) ==
    ToInt(ShrU32(AndU32(f, TypeMetadataKindMask), TypeMetadataKindShift))

\* The six values ConformanceFlags.String reads off a word.
ConformanceFlags_String(f) ==
    [retroactive |-> IsRetroactive(f),
     synthesized_nonunique |-> IsSynthesizedNonUnique(f),
     num_cond_reqs |-> GetNumConditionalRequirements(f),
     has_resilient_witnesses |-> HasResilientWitnesses(f),
     has_generic_witness_table |-> HasGenericWitnessTable(f),
     type_reference_kind |-> GetTypeReferenceKind(f)]

\* The largest value of the 8-bit count field (mask 0xFF << 8).
MaxNumConditionalRequirements == 255

\* The conformance words decoded: every count, with the bits below and
\* above the count field clear, mixed or set.
ConformanceWords ==
    {U32(h, c * 256 + low) :
        h \in {0, 1, 2, 65535},
        c \in 0 .. MaxNumConditionalRequirements,
        low \in {0, 8, 192, 255}}

ConfInit ==
    /\ confFlags = Lit(0)
    /\ confView = ConformanceFlags_String(Lit(0))
    /\ confPrev = ConformanceFlags_String(Lit(0))
    /\ confFlipped = -2

\* A conformance word, as read from a binary, is decoded.
DecodeConformance ==
    /\ confFlipped = -2
    /\ \E f \in ConformanceWords :
        /\ confFlags' = f
        /\ confView' = ConformanceFlags_String(f)
        /\ confPrev' = confView
        /\ confFlipped' = -1
        /\ UNCHANGED <<prVars, grVars, ctxVars, fieldVars, renderVars>>

\* The same word with bit i changed is decoded.
RedecodeConformance ==
    /\ confFlipped = -1
    /\ \E i \in 0 .. MaxBit :
        /\ confFlags' = FlipBit(confFlags, i)
        /\ confView' = ConformanceFlags_String(confFlags')
        /\ confPrev' = confView
        /\ confFlipped' = i
        /\ UNCHANGED <<prVars, grVars, ctxVars, fieldVars, renderVars>>

NextConformance == DecodeConformance \/ RedecodeConformance

--------------------------------------------------------------------------
(* ProtocolContextDescriptorFlags                                          *)

\* First bit and width of each sub-field of the kind-specific flags.
HasClassConstraint == 0
HasClassConstraint_width == 1
IsResilient == 1
SpecialProtocolKind == 2
SpecialProtocolKind_width_Five == 6 - 1
SpecialProtocolKind_width == 6

\* kindSpecific is what d.Flags.KindSpecific() returns; the conversion to
\* ProtocolContextDescriptorFlags keeps its 16 bits.
GetProtocolContextDescriptorFlags(kindSpecific) == kindSpecific % W16

\* The sub-field of `width` bits that starts at bit `firstBit`.
ContextFlagField(flags, firstBit, width) == (flags \div 2^firstBit) % 2^width

ContextFlagParts(flags) ==
    [class_constraint |->
        ContextFlagField(flags, HasClassConstraint, HasClassConstraint_width),
     resilient |-> ContextFlagField(flags, IsResilient, 1),
     special_kind |->
        ContextFlagField(flags, SpecialProtocolKind, SpecialProtocolKind_width)]

\* The sub-values put back at their bit positions.
PackContextFlagParts(parts) ==
    parts.class_constraint * 2^HasClassConstraint
    + parts.resilient * 2^IsResilient
    + parts.special_kind * 2^SpecialProtocolKind

\* The largest 16-bit value.
MaxUint16 == 65535

CtxInit ==
    /\ ctxDecoded = FALSE
    /\ ctxFlags = 0
    /\ ctxParts = ContextFlagParts(0)
    /\ ctxPacked = 0

\* The kind-specific flags of a protocol's context descriptor are taken
\* apart and packed again.
DecodeContextFlags ==
    /\ ~ctxDecoded
    /\ \E kindSpecific \in 0 .. MaxUint16 :
        /\ ctxDecoded' = TRUE
        /\ ctxFlags' = GetProtocolContextDescriptorFlags(kindSpecific)
        /\ ctxParts' = ContextFlagParts(ctxFlags')
        /\ ctxPacked' = PackContextFlagParts(ctxParts')
        /\ UNCHANGED <<prVars, grVars, confVars, fieldVars, renderVars>>

NextContextFlags == DecodeContextFlags

--------------------------------------------------------------------------
(* Field and FieldDescriptorKind                                           *)

Struct == 0
Class == 1
Enum == 2
MultiPayloadEnum == 3
Protocol == 4
ClassProtocol == 5
ObjCProtocol == 6
ObjCClass == 7

IsEnum_OnlyEnum(f) == f.Descriptor.Kind = Enum
IsEnum(f) == f.Descriptor.Kind = Enum \/ f.Descriptor.Kind = MultiPayloadEnum

IsClass(f) == f.Descriptor.Kind = Class \/ f.Descriptor.Kind = ObjCClass

IsProtocol_FromProtocolUp(f) == f.Descriptor.Kind >= Protocol
IsProtocol(f) ==
    \/ f.Descriptor.Kind = Protocol
    \/ f.Descriptor.Kind = ClassProtocol
    \/ f.Descriptor.Kind = ObjCProtocol

Classify(f) ==
    [IsEnum |-> IsEnum(f), IsClass |-> IsClass(f), IsProtocol |-> IsProtocol(f)]

\* Kind values tried: the named ones, some unnamed ones above them and the
\* largest uint16.
MaxKindTried == 9
KindsTried == (0 .. MaxKindTried) \cup {MaxUint16}

\* The field records tried: none, a record without a type (a payload-less
\* enum case) and a record with one.
MaxRecords == 1
RecordOffsetsTried == {0, 16}
FieldRecordsTried ==
    UNION {[1 .. n -> [MangledTypeNameOffset : RecordOffsetsTried]] :
             n \in 0 .. MaxRecords}

\* A Field: of the FieldDescriptor its Kind, NumFields and field records, and
\* of the resolved part MangledType and the Records' type names.
MakeField(kind, mangledType, fieldRecords) ==
    [MangledType |-> mangledType,
     Records |-> [i \in DOMAIN fieldRecords |->
                    IF fieldRecords[i].MangledTypeNameOffset = 0
                    THEN [Name |-> "A", MangledType |-> ""]
                    ELSE [Name |-> "a", MangledType |-> "MyEnum"]],
     Descriptor |-> [Kind |-> kind,
                     NumFields |-> Len(fieldRecords),
                     FieldRecords |-> fieldRecords]]

FieldsTried ==
    {MakeField(kind, mangledType, fieldRecords) :
        kind \in KindsTried, mangledType \in {"", "Name"},
        fieldRecords \in FieldRecordsTried}

FieldInit ==
    /\ fieldStep = 0
    /\ field = MakeField(Struct, "", <<>>)
    /\ fieldView = Classify(field)
    /\ prevField = field
    /\ prevFieldView = fieldView

\* A Field is classified; up to two Fields are, one after the other.
ClassifyField ==
    /\ fieldStep < 2
    /\ \E f \in FieldsTried :
        /\ fieldStep' = fieldStep + 1
        /\ field' = f
        /\ fieldView' = Classify(f)
        /\ prevField' = field
        /\ prevFieldView' = fieldView
        /\ UNCHANGED <<prVars, grVars, confVars, ctxVars, renderVars>>

NextField == ClassifyField

--------------------------------------------------------------------------
(* Protocol, Descriptor and their String methods                           *)
(*                                                                         *)
(* A text is the sequence of the pieces fmt.Sprintf writes: the literal    *)
(* parts of the format string, the formatted arguments, and "\n" as a      *)
(* piece of its own.                                                       *)

NL == "\n"

\* A nil *Protocol.
Nil == 0

\* Descriptor.String: three lines, the last one without a newline.
Descriptor_String(d) ==
    <<"Flags: (", ToString(d.Flags), ")", NL,
      "NumRequirementsInSignature: ", ToString(d.NumRequirementsInSignature), NL,
      "NumRequirements:            ", ToString(d.NumRequirements)>>

\* What %s writes for p.Parent: fmt calls String on a non-nil *Protocol
\* (parentText is what that call returned) and writes <nil> for a nil one.
FormatParent(p, parentText) ==
    IF p.Parent = Nil THEN <<"<nil>">> ELSE parentText

Protocol_String_SeparatorAlways(p, parentText) ==
    <<"Name:           ", p.Name, NL>>
    \o (IF p.Descriptor.AssociatedTypeNamesOffset # 0
        THEN <<"AssociatedType: ", p.AssociatedType, NL>>
        ELSE <<>>)
    \o Descriptor_String(p.Descriptor)
    \o <<NL, "---", NL>>
    \o (IF p.Descriptor.ParentOffset # 0
        THEN <<"Parent ">> \o FormatParent(p, parentText) \o <<NL>>
        ELSE <<>>)

Protocol_String_ChecksPointers(p, parentText) ==
    <<"Name:           ", p.Name, NL>>
    \o (IF p.AssociatedType # ""
        THEN <<"AssociatedType: ", p.AssociatedType, NL>>
        ELSE <<>>)
    \o Descriptor_String(p.Descriptor)
    \o (IF p.Parent # Nil
        THEN <<NL, "---", NL, "Parent ">> \o FormatParent(p, parentText) \o <<NL>>
        ELSE <<>>)

\* Protocol.String, given what the String call on p.Parent returned.
Protocol_String(p, parentText) ==
    <<"Name:           ", p.Name, NL>>
    \o (IF p.Descriptor.AssociatedTypeNamesOffset # 0
        THEN <<"AssociatedType: ", p.AssociatedType, NL>>
        ELSE <<>>)
    \o Descriptor_String(p.Descriptor)
    \o (IF p.Descriptor.ParentOffset # 0
        THEN <<NL, "---", NL, "Parent ">> \o FormatParent(p, parentText) \o <<NL>>
        ELSE <<>>)

\* How many Protocol values are in memory.
NumProtocols == 2

\* The String calls the goroutine's stack holds before the runtime ends the
\* program with "stack overflow"; more than any chain without a cycle needs.
MaxStackDepth == NumProtocols + 2

\* The Protocol values that can be at address i: the struct has no
\* constructor, so every combination of its fields is one.
ProtocolsAt(i) ==
    {[Name |-> "P" \o ToString(i),
      AssociatedType |-> assoc,
      Parent |-> parent,
      Descriptor |-> [Flags |-> 3,
                      ParentOffset |-> parentOffset,
                      NameOffset |-> 8,
                      NumRequirementsInSignature |-> 0,
                      NumRequirements |-> i,
                      AssociatedTypeNamesOffset |-> assocOffset]] :
        assoc \in {"", "Element"},
        parent \in {Nil} \cup (1 .. NumProtocols),
        parentOffset \in {0, -24},
        assocOffset \in {0, 40}}

Tables ==
    {t \in [1 .. NumProtocols -> UNION {ProtocolsAt(i) : i \in 1 .. NumProtocols}] :
        \A i \in 1 .. NumProtocols : t[i] \in ProtocolsAt(i)}

NoText == <<>>

RenderInit ==
    /\ table = <<>>
    /\ pc = "empty"
    /\ root = Nil
    /\ stack = <<>>
    /\ ret = NoText
    /\ rendered = NoText

\* Protocol values are put in memory, linked by their Parent pointers.
BuildProtocols ==
    /\ pc = "empty"
    /\ \E t \in Tables :
        /\ table' = t
        /\ pc' = "idle"
        /\ UNCHANGED <<root, stack, ret, rendered>>
        /\ UNCHANGED <<prVars, grVars, confVars, ctxVars, fieldVars>>

\* The address of the Protocol String is called on.  The Protocols at the
\* other addresses are rendered when they are among its ancestors; every
\* Protocol value and every linking occurs at this address too.
RootAddress == 1

\* String is called on the Protocol at RootAddress.
CallString ==
    /\ pc = "idle"
    /\ root' = RootAddress
    /\ stack' = <<RootAddress>>
    /\ pc' = "rendering"
    /\ UNCHANGED <<table, ret, rendered>>
    /\ UNCHANGED <<prVars, grVars, confVars, ctxVars, fieldVars>>

\* The innermost String call has to format a non-nil p.Parent and has not
\* done so yet.
AwaitsParent ==
    /\ pc = "rendering"
    /\ ret = NoText
    /\ table[stack[Len(stack)]].Descriptor.ParentOffset # 0
    /\ table[stack[Len(stack)]].Parent # Nil

\* Sprintf("...Parent %s\n", p.Parent) calls String on the parent.
CallParentString ==
    /\ AwaitsParent
    /\ Len(stack) < MaxStackDepth
    /\ stack' = Append(stack, table[stack[Len(stack)]].Parent)
    /\ UNCHANGED <<table, pc, root, ret, rendered>>
    /\ UNCHANGED <<prVars, grVars, confVars, ctxVars, fieldVars>>

\* The nested call does not fit on the stack: the runtime ends the program.
StackOverflow ==
    /\ AwaitsParent
    /\ Len(stack) = MaxStackDepth
    /\ pc' = "overflow"
    /\ UNCHANGED <<table, root, stack, ret, rendered>>
    /\ UNCHANGED <<prVars, grVars, confVars, ctxVars, fieldVars>>

\* The innermost String call returns its text, to the String call that
\* formats it as its parent or to the caller of the outermost one.
ReturnString ==
    /\ pc = "rendering"
    /\ ~AwaitsParent
    /\ LET text == Protocol_String(table[stack[Len(stack)]], ret)
       IN IF Len(stack) = 1
          THEN /\ rendered' = text
               /\ ret' = NoText
               /\ pc' = "done"
          ELSE /\ ret' = text
               /\ UNCHANGED <<rendered, pc>>
    /\ stack' = SubSeq(stack, 1, Len(stack) - 1)
    /\ UNCHANGED <<table, root>>
    /\ UNCHANGED <<prVars, grVars, confVars, ctxVars, fieldVars>>

NextRender ==
    \/ BuildProtocols
    \/ CallString
    \/ CallParentString
    \/ StackOverflow
    \/ ReturnString

--------------------------------------------------------------------------
vars == <<prVars, grVars, confVars, ctxVars, fieldVars, renderVars>>

InitState ==
    PRInit /\ GRInit /\ ConfInit /\ CtxInit /\ FieldInit /\ RenderInit

SpecPR == InitState /\ [][NextPR]_vars
SpecGR == InitState /\ [][NextGR]_vars
SpecConformance == InitState /\ [][NextConformance]_vars
SpecContextFlags == InitState /\ [][NextContextFlags]_vars
SpecField == InitState /\ [][NextField]_vars
SpecRender == InitState /\ [][NextRender]_vars

--------------------------------------------------------------------------
(* C1: a word built as k | instance<<4 | async<<5 | d<<16 decodes to       *)
(* Kind = k, IsInstance = instance, IsAsync = async and                    *)
(* ExtraDiscriminator = d; the Getter/instance/0x1234 word also has        *)
(* IsFunctionImpl = TRUE.                                                  *)
C1_RequirementFlagsRoundTrip ==
    prOrigin = "encoded" =>
        /\ prView.kind = prArgs.kind
        /\ prView.instance = prArgs.instance
        /\ prView.async = prArgs.async
        /\ prView.extra_discriminator = prArgs.disc
        /\ (prArgs = [kind |-> Getter, instance |-> TRUE, async |-> FALSE,
                      disc |-> 4660]
              => prView.function_impl)

C1_Witness ==
    /\ prOrigin = "encoded"
    /\ prArgs = [kind |-> Getter, instance |-> TRUE, async |-> FALSE, disc |-> 4660]
    /\ prFlags = U32(4660, 19)
    /\ prView.function_impl

(* C3: IsSignedWithAddress is true iff the kind is not BaseProtocol;       *)
(* IsFunctionImpl is true iff the kind is one of 1..6 and the word is not  *)
(* async, whatever the other bits of the word are.                         *)
C3_DerivedPredicates ==
    LET kind == (prFlags.lo) % 16
        async == (prFlags.lo \div 32) % 2 = 1
    IN /\ prView.signed_with_addr <=> (kind # 0)
       /\ prView.function_impl <=> (kind \in 1 .. 6 /\ ~async)
       /\ kind \in {0, 7, 8} \cup (9 .. 15) => ~prView.function_impl

C3_Witness ==
    /\ prOrigin = "raw"
    /\ prFlags = U32(65535, 65472 + 32 + 4)
    /\ prView.kind = Setter
    /\ prView.async
    /\ prView.signed_with_addr
    /\ ~prView.function_impl


(* C2: GetNumConditionalRequirements returns bits 8..15 of the word as a   *)
(* number in 0..255, and a change of a bit outside 8..15 leaves it as it   *)
(* was.                                                                    *)
C2_NumConditionalRequirements ==
    /\ confView.num_cond_reqs = confFlags.lo \div 256
    /\ confView.num_cond_reqs \in 0 .. 255
    /\ (confFlipped >= 0 /\ confFlipped \notin 8 .. 15)
          => confView.num_cond_reqs = confPrev.num_cond_reqs

C2_Witness ==
    /\ confFlipped = 17
    /\ confFlags = U32(65535 - 2, 65280 + 192)
    /\ confView.num_cond_reqs = 255
    /\ confPrev.num_cond_reqs = 255

(* C6: Kind is the raw value of bits 0..4 (named or not), HasKeyArgument   *)
(* is bit 7 and HasExtraArgument is bit 6; none of the three changes when  *)
(* a bit of one of the other two sub-fields changes.                       *)
C6_GenericRequirementFlagsRaw ==
    /\ grView.kind = grFlags.lo % 32
    /\ grView.key_arg <=> ((grFlags.lo \div 128) % 2 = 1)
    /\ grView.extra_arg <=> ((grFlags.lo \div 64) % 2 = 1)
    /\ grFlipped \in {6, 7} => grView.kind = grPrev.kind
    /\ grFlipped \in (0 .. 4) \cup {6} => grView.key_arg = grPrev.key_arg
    /\ grFlipped \in (0 .. 4) \cup {7} => grView.extra_arg = grPrev.extra_arg

C6_Witness ==
    /\ grFlipped = 7
    /\ grView.kind = 21
    /\ grView.kind \notin {GRKindProtocol, GRKindSameType, GRKindBaseClass,
                           GRKindSameConformance, GRKindLayout}
    /\ grPrev.kind = 21
    /\ grView.key_arg
    /\ ~grPrev.key_arg
    /\ grView.extra_arg

(* C4 as stated: for every 16-bit value of the kind-specific flags, the    *)
(* class-constraint bit, the resilience bit and the 6-bit special-kind     *)
(* field packed again give the original value.                             *)
C4_ContextFlagsRoundTrip_AsStated ==
    ctxDecoded => ctxPacked = ctxFlags

(* C4 amended: the three sub-values packed again give the low 8 bits of    *)
(* the value (bits 8..15 belong to none of them), hence the value itself   *)
(* exactly when it is below 256.                                           *)
C4_ContextFlagsRoundTrip ==
    ctxDecoded =>
        /\ ctxPacked = ctxFlags % 256
        /\ (ctxPacked = ctxFlags) <=> (ctxFlags < 256)

C4_Witness ==
    /\ ctxDecoded
    /\ ctxFlags = 511
    /\ ctxParts = [class_constraint |-> 1, resilient |-> 1, special_kind |-> 63]
    /\ ctxPacked = 255

(* C5: IsEnum, IsClass and IsProtocol are decided by Descriptor.Kind       *)
(* alone: IsEnum iff Kind is Enum or MultiPayloadEnum, IsClass iff Class   *)
(* or ObjCClass, IsProtocol iff Protocol, ClassProtocol or ObjCProtocol,   *)
(* and two Fields of the same Kind get the same three answers whatever     *)
(* their other fields are.                                                 *)
C5_ClassificationByKind ==
    fieldStep > 0 =>
        /\ fieldView.IsEnum <=> field.Descriptor.Kind \in {2, 3}
        /\ fieldView.IsClass <=> field.Descriptor.Kind \in {1, 7}
        /\ fieldView.IsProtocol <=> field.Descriptor.Kind \in {4, 5, 6}
        /\ (fieldStep = 2 /\ prevField.Descriptor.Kind = field.Descriptor.Kind)
              => fieldView = prevFieldView

C5_Witness ==
    /\ fieldStep = 2
    /\ field.Descriptor.Kind = Enum
    /\ field.Descriptor.NumFields = 1
    /\ field.Descriptor.FieldRecords[1].MangledTypeNameOffset = 0
    /\ prevField.Descriptor.Kind = Enum
    /\ prevField # field
    /\ fieldView.IsEnum

(* C10: at most one of IsEnum, IsClass, IsProtocol is true; none is        *)
(* exactly when Kind is Struct or no named kind (8 and above), and exactly *)
(* one is for each of the kinds 1..7.                                      *)
C10_ClassificationExclusive ==
    LET n == BoolBit(fieldView.IsEnum) + BoolBit(fieldView.IsClass)
             + BoolBit(fieldView.IsProtocol)
        kind == field.Descriptor.Kind
    IN /\ n <= 1
       /\ (n = 0) <=> (kind = 0 \/ kind >= 8)
       /\ (n = 1) <=> (kind \in 1 .. 7)

C10_Witness ==
    /\ fieldStep = 1
    /\ field.Descriptor.Kind = MaxUint16
    /\ fieldView = [IsEnum |-> FALSE, IsClass |-> FALSE, IsProtocol |-> FALSE]

--------------------------------------------------------------------------
(* The lines of a text: the pieces between its newlines (a text that ends  *)
(* with a newline has an empty last line).                                 *)

RECURSIVE SplitLines(_)
SplitLines(text) ==
    IF text = <<>> THEN << <<>> >>
    ELSE LET rest == SplitLines(Tail(text))
         IN IF Head(text) = NL
            THEN << <<>> >> \o rest
            ELSE << <<Head(text)>> \o Head(rest) >> \o Tail(rest)

FirstPiece(line) == IF line = <<>> THEN "" ELSE Head(line)

RenderedLines == SplitLines(rendered)

\* The root Protocol of a finished rendering and the number of lines of its
\* own (Name, AssociatedType if any, Flags and the two counts).
Root == table[root]
OwnLines == IF Root.Descriptor.AssociatedTypeNamesOffset # 0 THEN 5 ELSE 4

NameLine(p) == <<"Name:           ", p.Name>>
AssociatedTypeLine(p) == <<"AssociatedType: ", p.AssociatedType>>
FlagsLine(p) == <<"Flags: (", ToString(p.Descriptor.Flags), ")">>
SignatureCountLine(p) ==
    <<"NumRequirementsInSignature: ", ToString(p.Descriptor.NumRequirementsInSignature)>>
CountLine(p) ==
    <<"NumRequirements:            ", ToString(p.Descriptor.NumRequirements)>>
SeparatorLine == <<"---">>

\* The lines every rendering starts with, in their order.
OwnLinesInOrder ==
    /\ Len(RenderedLines) >= OwnLines
    /\ RenderedLines[1] = NameLine(Root)
    /\ (OwnLines = 5 => RenderedLines[2] = AssociatedTypeLine(Root))
    /\ RenderedLines[OwnLines - 2] = FlagsLine(Root)
    /\ RenderedLines[OwnLines - 1] = SignatureCountLine(Root)
    /\ RenderedLines[OwnLines] = CountLine(Root)

(* C7 as stated: in every rendering, also that of a protocol without a     *)
(* parent, the lines are Name, AssociatedType (if any), Flags, the two     *)
(* counts and then the separator line '---'.                               *)
C7_SeparatorInEveryRendering_AsStated ==
    pc = "done" =>
        /\ OwnLinesInOrder
        /\ Len(RenderedLines) > OwnLines
        /\ RenderedLines[OwnLines + 1] = SeparatorLine

(* C7 amended: the lines are Name, AssociatedType (only when               *)
(* AssociatedTypeNamesOffset is nonzero), Flags and the two counts; the    *)
(* separator line '---' and the 'Parent <parent-rendering>' line follow    *)
(* them together, and the text then ends with a newline, only when         *)
(* ParentOffset is nonzero; with ParentOffset zero the text ends at the    *)
(* NumRequirements line, with no separator and no final newline.           *)
C7_RenderingLines ==
    pc = "done" =>
        /\ OwnLinesInOrder
        /\ IF Root.Descriptor.ParentOffset = 0
           THEN /\ Len(RenderedLines) = OwnLines
                /\ \A i \in 1 .. Len(RenderedLines) :
                      RenderedLines[i] # SeparatorLine
           ELSE /\ Len(RenderedLines) >= OwnLines + 3
                /\ RenderedLines[OwnLines + 1] = SeparatorLine
                /\ RenderedLines[OwnLines + 2] =
                      <<"Parent ">> \o
                        (IF Root.Parent = Nil THEN <<"<nil>">>
                         ELSE NameLine(table[Root.Parent]))
                /\ RenderedLines[Len(RenderedLines)] = <<>>

C7_Witness ==
    /\ pc = "done"
    /\ Root.Descriptor.ParentOffset # 0
    /\ Root.Parent # Nil
    /\ Root.Parent # root
    /\ table[Root.Parent].Descriptor.ParentOffset = 0
    /\ Root.Descriptor.AssociatedTypeNamesOffset # 0
    /\ Len(RenderedLines) = 11
    /\ RenderedLines[6] = SeparatorLine

(* C8 as stated: rendering a Protocol finishes on every Parent graph, a    *)
(* circular one included: no rendering ends in the stack running out, and  *)
(* no Protocol is entered a second time while its String call is in        *)
(* progress.                                                               *)
C8_ParentTraversalTerminates ==
    /\ pc # "overflow"
    /\ \A i, j \in 1 .. Len(stack) : i # j => stack[i] # stack[j]

\* Whether the rendering has the AssociatedType line (its second line) and
\* the Parent section (the second line after the counts), and whether that
\* section shows a protocol, that is, goes on with the parent's Name line.
HasAssociatedTypeLine ==
    /\ Len(RenderedLines) >= 2
    /\ FirstPiece(RenderedLines[2]) = "AssociatedType: "
HasParentSection ==
    /\ Len(RenderedLines) >= OwnLines + 2
    /\ FirstPiece(RenderedLines[OwnLines + 2]) = "Parent "
ParentSectionShowsProtocol ==
    /\ HasParentSection
    /\ Len(RenderedLines[OwnLines + 2]) = 3
    /\ RenderedLines[OwnLines + 2][2] = "Name:           "

(* C9 as stated: the AssociatedType line is rendered iff                   *)
(* AssociatedTypeNamesOffset is nonzero and the Parent section iff         *)
(* ParentOffset is nonzero, and every Protocol rendered has a non-empty    *)
(* AssociatedType exactly when AssociatedTypeNamesOffset is nonzero and a  *)
(* non-nil Parent exactly when ParentOffset is nonzero, so that a rendered *)
(* Parent section shows a parent protocol.                                 *)
C9_PresenceFollowsOffsets_AsStated ==
    pc = "done" =>
        /\ HasAssociatedTypeLine <=> Root.Descriptor.AssociatedTypeNamesOffset # 0
        /\ HasParentSection <=> Root.Descriptor.ParentOffset # 0
        /\ (Root.AssociatedType # "") <=> Root.Descriptor.AssociatedTypeNamesOffset # 0
        /\ (Root.Parent # Nil) <=> Root.Descriptor.ParentOffset # 0
        /\ HasParentSection => ParentSectionShowsProtocol

(* C9 amended: the AssociatedType line is rendered iff                     *)
(* AssociatedTypeNamesOffset is nonzero and the Parent section iff         *)
(* ParentOffset is nonzero, whatever the AssociatedType string and the     *)
(* Parent pointer are; a rendered Parent section shows a parent protocol   *)
(* iff Parent is non-nil and shows <nil> otherwise, and a rendered         *)
(* AssociatedType line shows the AssociatedType string, empty or not.      *)
C9_PresenceFollowsOffsets ==
    pc = "done" =>
        /\ HasAssociatedTypeLine <=> Root.Descriptor.AssociatedTypeNamesOffset # 0
        /\ HasParentSection <=> Root.Descriptor.ParentOffset # 0
        /\ HasAssociatedTypeLine
              => RenderedLines[2] = <<"AssociatedType: ", Root.AssociatedType>>
        /\ HasParentSection
              => /\ ParentSectionShowsProtocol <=> Root.Parent # Nil
                 /\ Root.Parent = Nil
                      => RenderedLines[OwnLines + 2] = <<"Parent ", "<nil>">>

C9_Witness ==
    /\ pc = "done"
    /\ Root.Descriptor.ParentOffset # 0
    /\ Root.Parent = Nil
    /\ Root.Descriptor.AssociatedTypeNamesOffset # 0
    /\ Root.AssociatedType = ""
    /\ HasParentSection
    /\ HasAssociatedTypeLine
    /\ ~ParentSectionShowsProtocol

==========================================================================
